---- MODULE Spec2Model ----
(***************************************************************************)
(* A model of the remote-work analysis pipeline of py_files/functions.py   *)
(* and py_files/main.py: the two cleaning functions, the rescale they      *)
(* use, the two stress cross-tabulations and the orchestrator script.      *)
(*                                                                         *)
(* A DataFrame is a record [columns, rows]: the set of its column names    *)
(* and the sequence of its rows, each row a function from column name to   *)
(* cell.  Floating-point cells are exact fractions [k, n, d] (k = "num")   *)
(* or one of the IEEE specials (k = "nan", "inf", "ninf"); the binary      *)
(* representation error of a float is not modelled.                       *)
(***************************************************************************)
EXTENDS Integers, Sequences, FiniteSets, TLC

VARIABLES
    df,            \* the raw productivity table passed to cleaning_productivity_data
    df_cleaned,    \* what cleaning_productivity_data returned: [error, value]
    df2,           \* the caller's raw mental-health table
    df2_cleaned,   \* what df_mentalhealth_cleaning returned: [error, value]
    df_stress,     \* what stress_worktype_rel returned: [error, value]
    df_stress_role,\* what stress_jobrole_rel returned: [error, value]
    col,           \* a column of floats the rescale is applied to
    rescales,      \* how many times the rescale has been applied to col
    pc,            \* main.py: the index in Program of the statement to run next
    config,        \* main.py: what the name config is bound to
    env,           \* the files and directories the script finds when it starts
    written,       \* the output files the script has written, in order
    raised         \* the exception that ended the script, "none" while there is none

\* The state of the script main.py.
main == <<pc, config, env, written, raised>>

vars == <<df, df_cleaned, df2, df2_cleaned, df_stress, df_stress_role,
          col, rescales, pc, config, env, written, raised>>

(***************************************************************************)
(* Bounds of the model.                                                    *)
(***************************************************************************)
MaxRows == 3
MaxMentalRows == 2
MaxRating == 6
MaxCount == 3

(***************************************************************************)
(* Floats as exact fractions.                                              *)
(***************************************************************************)
Abs(x) == IF x < 0 THEN -x ELSE x

RECURSIVE GCD(_, _)
GCD(a, b) == IF b = 0 THEN a ELSE GCD(b, a % b)

\* The fraction n/d in lowest terms with a positive denominator (d # 0).
Frac(n, d) ==
    LET g == GCD(Abs(n), Abs(d))
        s == IF d < 0 THEN -1 ELSE 1
    IN  [k |-> "num", n |-> (s * n) \div g, d |-> (s * d) \div g]

F(n) == [k |-> "num", n |-> n, d |-> 1]
FNaN == [k |-> "nan", n |-> 0, d |-> 1]
FInf == [k |-> "inf", n |-> 0, d |-> 1]
FNegInf == [k |-> "ninf", n |-> 0, d |-> 1]

IsNum(a) == a.k = "num"
FSign(a) ==
    CASE a.k = "inf" -> 1
      [] a.k = "ninf" -> -1
      [] a.k = "nan" -> 0
      [] OTHER -> IF a.n > 0 THEN 1 ELSE IF a.n < 0 THEN -1 ELSE 0

\* IEEE 754 division, the / of a float Series by a float scalar.
FDiv(a, b) ==
    IF a.k = "nan" \/ b.k = "nan" THEN FNaN
    ELSE IF ~IsNum(b)
         THEN IF IsNum(a) THEN F(0) ELSE FNaN
    ELSE IF b.n = 0
         THEN IF FSign(a) = 0 THEN FNaN
              ELSE IF FSign(a) > 0 THEN FInf ELSE FNegInf
    ELSE IF ~IsNum(a)
         THEN IF FSign(a) * FSign(b) > 0 THEN FInf ELSE FNegInf
    ELSE Frac(a.n * b.d, a.d * b.n)

\* IEEE 754 addition.
FAdd(a, b) ==
    IF a.k = "nan" \/ b.k = "nan" THEN FNaN
    ELSE IF ~IsNum(a) /\ ~IsNum(b)
         THEN IF a.k = b.k THEN a ELSE FNaN
    ELSE IF ~IsNum(a) THEN a
    ELSE IF ~IsNum(b) THEN b
    ELSE Frac(a.n * b.d + b.n * a.d, a.d * b.d)

\* IEEE 754 multiplication by a positive integer constant.
FMulInt(a, c) == IF IsNum(a) THEN Frac(a.n * c, a.d) ELSE a

\* IEEE 754 division by a positive integer constant.
FDivInt(a, c) == IF IsNum(a) THEN Frac(a.n, a.d * c) ELSE a

FLe(a, b) == IsNum(a) /\ IsNum(b) /\ a.n * b.d <= b.n * a.d
FLt(a, b) == IsNum(a) /\ IsNum(b) /\ a.n * b.d < b.n * a.d

\* Series.round(2): to the nearest hundredth, a tie to the even hundredth;
\* NaN and the infinities round to themselves.
Round2(a) ==
    IF ~IsNum(a) THEN a
    ELSE LET q == (100 * a.n) \div a.d
             r == (100 * a.n) % a.d
             h == IF 2 * r < a.d THEN q
                  ELSE IF 2 * r > a.d THEN q + 1
                  ELSE IF q % 2 = 0 THEN q ELSE q + 1
         IN  Frac(h, 100)

(***************************************************************************)
(* DataFrames.                                                             *)
(***************************************************************************)
NaN == "NaN"      \* a missing value in a column of strings

\* TLC keeps a function constructor [x \in S |-> e] unevaluated and
\* evaluates e again at every application.  Row and Tab are the identity
\* on a row and on a sequence; they make TLC tabulate the function once.
Row(f) == f @@ f
Tab(s) == s \o <<>>

DataFrame(columns, rows) == [columns |-> columns, rows |-> rows]
EmptyFrame == DataFrame({}, <<>>)

\* A call's outcome: the value it returned, or the exception it raised.
Return(v) == [error |-> "none", value |-> v]
Raise(e) == [error |-> e, value |-> EmptyFrame]

\* The values of column c, in row order.
Column(t, c) == Tab([i \in 1..Len(t.rows) |-> t.rows[i][c]])

\* df.drop(columns=names, errors='ignore'): a new frame without the named
\* columns that exist.
DropIgnore(t, names) ==
    DataFrame(t.columns \ names,
              Tab([i \in 1..Len(t.rows) |->
                      Row([c \in t.columns \ names |-> t.rows[i][c]])]))

\* df[mask]: a new frame with the rows whose mask is TRUE, in order.
RECURSIVE MaskSeq(_, _)
MaskSeq(rows, mask) ==
    IF rows = <<>> THEN <<>>
    ELSE LET rest == MaskSeq(Tail(rows), Tail(mask))
         IN  IF Head(mask) THEN <<Head(rows)>> \o rest ELSE rest

BoolIndex(t, mask) == DataFrame(t.columns, MaskSeq(t.rows, mask))

\* df[name] = values: the column is added, or overwritten when it exists.
SetColumn(t, name, values) ==
    DataFrame(t.columns \cup {name},
              Tab([i \in 1..Len(t.rows) |->
                      Row([c \in t.columns \cup {name} |->
                              IF c = name THEN values[i] ELSE t.rows[i][c]])]))

\* str.lower() of the column names the two datasets and the code use.
LowerNames ==
    [Department |-> "department",
     Remote_Work_Frequency |-> "remote_work_frequency",
     Promotions |-> "promotions",
     Training_Hours |-> "training_hours",
     Employee_Satisfaction_Score |-> "employee_satisfaction_score",
     Performance_Score |-> "performance_score",
     Motivation_Score |-> "motivation_score",
     Work_Hours_Per_Week |-> "work_hours_per_week",
     Employee_ID |-> "employee_id",
     Hire_Date |-> "hire_date",
     Team_Size |-> "team_size",
     Job_Role |-> "job_role",
     Industry |-> "industry",
     Work_Location |-> "work_location",
     Stress_Level |-> "stress_level",
     Company_Support_for_Remote_Work |-> "company_support_for_remote_work",
     Social_Isolation_Rating |-> "social_isolation_rating",
     Work_Life_Balance_Rating |-> "work_life_balance_rating",
     Mental_Health_Condition |-> "mental_health_condition",
     Access_to_Mental_Health_Resources |-> "access_to_mental_health_resources",
     Physical_Activity |-> "physical_activity",
     Sleep_Quality |-> "sleep_quality",
     Region |-> "region",
     Overtime_Hours |-> "overtime_hours",
     Satisfaction_with_Remote_Work |-> "satisfaction_with_remote_work",
     Number_of_Virtual_Meetings |-> "number_of_virtual_meetings",
     Hours_Worked_Per_Week |-> "hours_worked_per_week"]

str_lower(c) == IF c \in DOMAIN LowerNames THEN LowerNames[c] ELSE c

\* A frame with every column c renamed to ren[c] (ren is injective on the
\* columns of t).
RenameColumns(t, ren) ==
    LET new == {ren[c] : c \in t.columns}
        old(c2) == CHOOSE c \in t.columns : ren[c] = c2
    IN  DataFrame(new,
                  Tab([i \in 1..Len(t.rows) |->
                          Row([c2 \in new |-> t.rows[i][old(c2)]])]))

\* Series.max() of a column of integers: NaN for an empty column.
RECURSIVE SeqMax(_)
SeqMax(s) ==
    IF Len(s) = 1 THEN s[1]
    ELSE LET m == SeqMax(Tail(s)) IN IF s[1] >= m THEN s[1] ELSE m

SeriesMax(s) == IF s = <<>> THEN FNaN ELSE F(SeqMax(s))

(***************************************************************************)
(* cleaning_productivity_data.                                             *)
(***************************************************************************)
WorkTypes == {"Remote", "Hybrid", "Onsite"}

RequiredProductivityColumns ==
    {"Department", "Remote_Work_Frequency", "Promotions", "Training_Hours",
     "Employee_Satisfaction_Score", "Performance_Score"}

\* The row mask of the filter.
ITAndFrequencyMask(t) ==
    Tab([i \in 1..Len(t.rows) |->
            /\ t.rows[i].Department = "IT"
            /\ t.rows[i].Remote_Work_Frequency # 75
            /\ t.rows[i].Remote_Work_Frequency # 25])

\* Series.replace({100: 'Remote', 50: 'Hybrid', 0: 'Onsite'}): a matched
\* number becomes its label (a string cell [s]), any other value stays the
\* number it was (a numeric cell [n]).
ReplaceFrequency(v) ==
    CASE v = 100 -> [s |-> "Remote"]
      [] v = 50 -> [s |-> "Hybrid"]
      [] v = 0 -> [s |-> "Onsite"]
      [] OTHER -> [n |-> v]

\* pd.Categorical(values, categories=[...]): a value that is no category
\* becomes missing.
Categorical(cell, categories) ==
    IF "s" \in DOMAIN cell /\ cell.s \in categories THEN cell.s ELSE NaN

\* The rescale with its + 1 left out: (value / max) * 4.
RescaleNoOffset(v, max) == FMulInt(FDiv(v, max), 4)

\* The rescale with a guard on the maximum: a column whose maximum is 0
\* rescales to 1.
RescaleGuarded(v, max) ==
    IF IsNum(max) /\ max.n = 0 THEN F(1)
    ELSE FAdd(FMulInt(FDiv(v, max), 4), F(1))

\* (value / max) * 4 + 1 on floats.
Rescale(v, max) == FAdd(FMulInt(FDiv(v, max), 4), F(1))

\* The maximum taken before the filter, over every raw row.
NormalizationRowsUnfiltered(raw, filtered) == raw

\* The rows whose maximum normalizes a column: the frame is already
\* filtered when the maximum is taken.
NormalizationRows(raw, filtered) == filtered

\* Series.max() of integer column c over the rows that normalize it.
ColumnMax(raw, filtered, c) ==
    SeriesMax(Column(NormalizationRows(raw, filtered), c))

\* The column (df[c] / df[c].max()) * 4 + 1 of the filtered frame.
Normalized(raw, filtered, c) ==
    LET max == ColumnMax(raw, filtered, c)
    IN  Tab([i \in 1..Len(filtered.rows) |->
                Rescale(F(filtered.rows[i][c]), max)])

\* The average of the four factors of a row, rounded to 2 decimals.
MotivationScore(row) ==
    Round2(FDivInt(FAdd(FAdd(FAdd(row.Employee_Satisfaction_Score,
                                  row.Performance_Score),
                             row.Promotions_Normalized),
                        row.Training_Hours_Normalized), 4))

RenameWorkType(c) == IF c = "remote_work_frequency" THEN "work_type" ELSE c

\* The drop without errors='ignore': a column that is not there is an
\* error, and no frame goes on to the filter.
DroppedOrError(t) ==
    IF {"Employee_ID", "Hire_Date", "Team_Size"} \subseteq t.columns
    THEN DropIgnore(t, {"Employee_ID", "Hire_Date", "Team_Size"})
    ELSE EmptyFrame

\* The frame without the three dropped columns, and its rows that pass the
\* filter.
Dropped(t) == DropIgnore(t, {"Employee_ID", "Hire_Date", "Team_Size"})
Filtered(t) == BoolIndex(Dropped(t), ITAndFrequencyMask(Dropped(t)))

cleaning_productivity_data(t) ==
    LET dropped == Dropped(t)
    IN  IF ~(RequiredProductivityColumns \subseteq dropped.columns)
        THEN Raise("KeyError")
        ELSE
        LET filtered == Filtered(t)
            replaced ==
                SetColumn(filtered, "Remote_Work_Frequency",
                    Tab([i \in 1..Len(filtered.rows) |->
                        ReplaceFrequency(filtered.rows[i].Remote_Work_Frequency)]))
            withPn == SetColumn(replaced, "Promotions_Normalized",
                                Normalized(dropped, replaced, "Promotions"))
            withTn == SetColumn(withPn, "Training_Hours_Normalized",
                                Normalized(dropped, withPn, "Training_Hours"))
            scored ==
                SetColumn(withTn, "Motivation_Score",
                    Tab([i \in 1..Len(withTn.rows) |->
                        MotivationScore(withTn.rows[i])]))
            final == DropIgnore(scored, {"Promotions_Normalized",
                                         "Training_Hours_Normalized"})
            lowered == RenameColumns(final, [c \in final.columns |-> str_lower(c)])
            renamed == RenameColumns(lowered, [c \in lowered.columns |-> RenameWorkType(c)])
            typed ==
                SetColumn(renamed, "work_type",
                    Tab([i \in 1..Len(renamed.rows) |->
                        Categorical(renamed.rows[i].work_type, WorkTypes)]))
        IN  Return(typed)

(***************************************************************************)
(* The raw productivity tables the cleaning is called on.                  *)
(***************************************************************************)
RawRow(i, dept, freq, promo, train, sat, perf) ==
    [Employee_ID |-> i, Hire_Date |-> "2020-01-01", Team_Size |-> 5,
     Department |-> dept, Remote_Work_Frequency |-> freq,
     Promotions |-> promo, Training_Hours |-> train,
     Employee_Satisfaction_Score |-> sat, Performance_Score |-> perf,
     Work_Hours_Per_Week |-> 40 + i]

RawColumns ==
    {"Employee_ID", "Hire_Date", "Team_Size", "Department",
     "Remote_Work_Frequency", "Promotions", "Training_Hours",
     "Employee_Satisfaction_Score", "Performance_Score", "Work_Hours_Per_Week"}

\* Tables that vary department and frequency: the five documented
\* frequencies and one undocumented frequency.
Departments == {"IT", "HR"}
Frequencies == {0, 25, 50, 75, 100, 10}

FilterTables ==
    {DataFrame(RawColumns,
               Tab([i \in DOMAIN f |->
                       RawRow(i, f[i][1], f[i][2], 1, 1, F(3), F(3))])) :
        f \in UNION {[1..n -> Departments \X Frequencies] : n \in 0..MaxRows}}

\* Tables that vary what the motivation score is computed from: the
\* promotions, and a profile <<training hours, satisfaction, performance>>
\* at the two ends of the documented score range.
PromotionCounts == {0, 1, 3}
Profiles == {<<0, F(1), F(1)>>, <<1, F(5), F(5)>>}

ScoreTables ==
    {DataFrame(RawColumns,
               Tab([i \in DOMAIN f |->
                       RawRow(i, f[i][1], 100, f[i][2],
                              f[i][3][1], f[i][3][2], f[i][3][3])])) :
        f \in UNION {[1..n -> Departments \X PromotionCounts \X Profiles] :
                        n \in 0..MaxRows}}

\* Five IT rows with frequencies 100, 50, 0, 75, 25.
ExampleFrequencies == <<100, 50, 0, 75, 25>>
ExamplePromotions == <<0, 2, 4, 1, 3>>
ExampleTrainingHours == <<0, 50, 100, 25, 75>>
ExampleTable ==
    DataFrame(RawColumns,
              Tab([i \in 1..5 |-> RawRow(i, "IT", ExampleFrequencies[i],
                                         ExamplePromotions[i], ExampleTrainingHours[i],
                                         F(5), F(5))]))

\* ExampleTable without some of the columns the cleaning drops, without one
\* of the columns it reads, or without one of each.
DroppedProductivityColumns == {"Employee_ID", "Hire_Date", "Team_Size"}
MissingColumnTables ==
    {DropIgnore(ExampleTable, cs) :
        cs \in (SUBSET DroppedProductivityColumns)
                \cup {{c} : c \in RequiredProductivityColumns}
                \cup {{c, "Hire_Date"} : c \in RequiredProductivityColumns}}

RawProductivityTables ==
    FilterTables \cup ScoreTables \cup {ExampleTable} \cup MissingColumnTables

(***************************************************************************)
(* df_mentalhealth_cleaning.                                               *)
(***************************************************************************)
\* The bucketing as the documentation describes it: below 1 is High.
support_remote_grade_documented(grade) ==
    IF grade < 1 THEN "High"
    ELSE IF grade <= 2 THEN "Low"
    ELSE IF grade = 3 THEN "Medium"
    ELSE "High"

support_remote_grade(grade) ==
    IF grade <= 2 THEN "Low"
    ELSE IF grade = 3 THEN "Medium"
    ELSE "High"

\* The bucketing with the first threshold off by one.
social_isolation_strict(rating) ==
    IF rating < 2 THEN "Low"
    ELSE IF rating = 3 THEN "Medium"
    ELSE "High"

social_isolation(rating) ==
    IF rating <= 2 THEN "Low"
    ELSE IF rating = 3 THEN "Medium"
    ELSE "High"

degree_work_life_balance(grade) ==
    IF grade <= 2 THEN "Low"
    ELSE IF grade = 3 THEN "Medium"
    ELSE "High"

DroppedMentalColumns ==
    {"employee_id", "industry", "mental_health_condition",
     "access_to_mental_health_resources", "physical_activity",
     "sleep_quality", "region"}

TechRoles == {"Data Scientist", "Software Engineer", "Project Manager"}

RenameWorkLocation(c) == IF c = "work_location" THEN "work_type" ELSE c

\* A row mask that keeps every row.
KeepAll(t, c, values) == Tab([i \in 1..Len(t.rows) |-> TRUE])

\* Series.isin(values) as a row mask.
IsIn(t, c, values) == Tab([i \in 1..Len(t.rows) |-> t.rows[i][c] \in values])

\* The outcome of a call whose drop is in place: the caller's table loses
\* the dropped columns as well.
OutcomeDropInPlace(result, arg) ==
    [error |-> result.error, value |-> result.value,
     arg |-> DropIgnore(arg, DroppedMentalColumns)]

\* A call's outcome together with the caller's table as the call left it:
\* the lower-casing of the column names and the three bucket columns are
\* written to the caller's table, the drop returns a new table.
Outcome(result, arg) ==
    [error |-> result.error, value |-> result.value, arg |-> arg]

df_mentalhealth_cleaning(t) ==
    LET lowered == RenameColumns(t, [c \in t.columns |-> str_lower(c)])
    IN  IF "company_support_for_remote_work" \notin lowered.columns
        THEN Outcome(Raise("KeyError"), lowered)
        ELSE
        LET b1 == SetColumn(lowered, "degree_of_remote_support",
                      Tab([i \in 1..Len(lowered.rows) |->
                          support_remote_grade(
                              lowered.rows[i].company_support_for_remote_work)]))
        IN  IF "social_isolation_rating" \notin b1.columns
            THEN Outcome(Raise("KeyError"), b1)
            ELSE
            LET b2 == SetColumn(b1, "degree_of_social_isolation",
                          Tab([i \in 1..Len(b1.rows) |->
                              social_isolation(b1.rows[i].social_isolation_rating)]))
            IN  IF "work_life_balance_rating" \notin b2.columns
                THEN Outcome(Raise("KeyError"), b2)
                ELSE
                LET b3 == SetColumn(b2, "degree_of_work-life_balance",
                              Tab([i \in 1..Len(b2.rows) |->
                                  degree_work_life_balance(
                                      b2.rows[i].work_life_balance_rating)]))
                IN  IF ~(DroppedMentalColumns \subseteq b3.columns)
                       \/ "job_role" \notin b3.columns
                    THEN Outcome(Raise("KeyError"), b3)
                    ELSE
                    LET dropped == DropIgnore(b3, DroppedMentalColumns)
                        renamed == RenameColumns(dropped,
                                      [c \in dropped.columns |-> RenameWorkLocation(c)])
                    IN  Outcome(Return(BoolIndex(renamed,
                                    IsIn(renamed, "job_role", TechRoles))), b3)

(***************************************************************************)
(* stress_worktype_rel and stress_jobrole_rel.                             *)
(***************************************************************************)
StressRowOrder == <<"Low", "Medium", "High">>

\* The lexicographic order of the labels of the two grouped columns, the
\* order in which unstack() lays out the columns.
SortedLabels ==
    <<"Data Scientist", "Hybrid", "Onsite", "Project Manager", "Remote",
      "Software Engineer">>

\* The labels of column c that occur in t, sorted.
Observed(t, c) ==
    SelectSeq(SortedLabels, LAMBDA l : \E i \in 1..Len(t.rows) : t.rows[i][c] = l)

CountRows(t, stress, c, label) ==
    Cardinality({i \in 1..Len(t.rows) :
                    t.rows[i].stress_level = stress /\ t.rows[i][c] = label})

StressLevels(t) == {t.rows[i].stress_level : i \in 1..Len(t.rows)}

\* The percentage normalized by the whole table instead of by the stress
\* level: the percentage of label among the rows of every stress level.
PercentageOfAllRows(t, stress, c, label) ==
    LET n == CountRows(t, stress, c, label)
    IN  IF n = 0 THEN FNaN ELSE FMulInt(Frac(n, Len(t.rows)), 100)

\* x.value_counts(normalize=True) * 100 of the rows of one stress level,
\* unstacked: the percentage of label among them, missing when there is none.
Percentage(t, stress, c, label) ==
    LET n == CountRows(t, stress, c, label)
        total == Cardinality({i \in 1..Len(t.rows) : t.rows[i].stress_level = stress})
    IN  IF n = 0 THEN FNaN ELSE FMulInt(Frac(n, total), 100)

\* DataFrame.sum(axis=1): the sum of the values of a row that are not
\* missing.
RECURSIVE SumSkipNaN(_)
SumSkipNaN(s) ==
    IF s = <<>> THEN F(0)
    ELSE IF Head(s).k = "nan" THEN SumSkipNaN(Tail(s))
    ELSE FAdd(Head(s), SumSkipNaN(Tail(s)))

\* The table of percentages with one row per stress level of order and one
\* column per name of names, names[j] holding the percentage of labels[j],
\* a Total column added and the named columns then rounded to 2 decimals.
PercentageTable(t, c, labels, names, order) ==
    DataFrame({"stress_level", "Total"} \cup {names[j] : j \in 1..Len(names)},
        Tab([r \in 1..Len(order) |->
            LET pct == Tab([j \in 1..Len(labels) |->
                               Percentage(t, order[r], c, labels[j])])
            IN  Row([k \in {"stress_level", "Total"}
                              \cup {names[j] : j \in 1..Len(names)} |->
                        IF k = "stress_level" THEN order[r]
                        ELSE IF k = "Total" THEN SumSkipNaN(pct)
                        ELSE Round2(pct[CHOOSE j \in 1..Len(names) : names[j] = k])])]))

\* The names given to the unstacked columns, in column order.
WorkTypeColumnNames == <<"Remote", "Hybrid", "Onsite">>

stress_worktype_rel(t) ==
    LET labels == Observed(t, "work_type")
    IN  IF Len(labels) # Len(WorkTypeColumnNames) THEN Raise("ValueError")
        ELSE IF ~({"Low", "Medium", "High"} \subseteq StressLevels(t))
        THEN Raise("KeyError")
        ELSE Return(PercentageTable(t, "work_type", labels, WorkTypeColumnNames,
                                    StressRowOrder))

stress_jobrole_rel(t) ==
    LET labels == Observed(t, "job_role")
    IN  IF ~({"Low", "Medium", "High"} \subseteq StressLevels(t))
        THEN Raise("KeyError")
        ELSE Return(PercentageTable(t, "job_role", labels, labels, StressRowOrder))

(***************************************************************************)
(* The raw mental-health tables the cleaning is called on.                 *)
(***************************************************************************)
RawMentalRow(i, role, location, stress, ratings) ==
    [Employee_ID |-> i, Job_Role |-> role, Industry |-> "IT",
     Work_Location |-> location, Stress_Level |-> stress,
     Company_Support_for_Remote_Work |-> ratings[1],
     Social_Isolation_Rating |-> ratings[2],
     Work_Life_Balance_Rating |-> ratings[3],
     Mental_Health_Condition |-> "None",
     Access_to_Mental_Health_Resources |-> "Yes",
     Physical_Activity |-> "Weekly", Sleep_Quality |-> "Good",
     Region |-> "Europe"]

RawMentalColumns ==
    {"Employee_ID", "Job_Role", "Industry", "Work_Location", "Stress_Level",
     "Company_Support_for_Remote_Work", "Social_Isolation_Rating",
     "Work_Life_Balance_Rating", "Mental_Health_Condition",
     "Access_to_Mental_Health_Resources", "Physical_Activity",
     "Sleep_Quality", "Region"}

\* Tables that vary the job role (three tech roles, another role, a missing
\* role) and the ratings: the documented 1..5, and 0 and the values above 5
\* outside it.  The three ratings of a row differ, so that a bucket tells
\* which rating it was computed from.
JobRoles == TechRoles \cup {"Sales", NaN}
RatingTriples ==
    {<<a, (a + 1) % (MaxRating + 1), (a + 2) % (MaxRating + 1)>> : a \in 0..MaxRating}

RatingTables ==
    {DataFrame(RawMentalColumns,
               Tab([i \in DOMAIN f |->
                       RawMentalRow(i, f[i][1], "Remote", "Low", f[i][2])])) :
        f \in UNION {[1..n -> JobRoles \X RatingTriples] : n \in 0..MaxMentalRows}}

\* Tables that vary how many rows each stress level has of each work type.
\* The job role of a row follows from its stress level and work type.
StressSeq == <<"Low", "Medium", "High">>
WorkTypeSeq == <<"Remote", "Hybrid", "Onsite">>
RoleSeq == <<"Data Scientist", "Project Manager", "Software Engineer">>

\* The nine (stress level, work type) cells, in a fixed order.
Cells == [k \in 1..9 |-> <<((k - 1) \div 3) + 1, ((k - 1) % 3) + 1>>]

RECURSIVE CellRows(_, _)
CellRows(count, k) ==
    IF k > 9 THEN <<>>
    ELSE LET s == Cells[k][1]
             w == Cells[k][2]
         IN  [j \in 1..count[k] |->
                 <<RoleSeq[((s + w) % 3) + 1], WorkTypeSeq[w], StressSeq[s]>>]
             \o CellRows(count, k + 1)

CountTable(count) ==
    LET cells == CellRows(count, 1)
    IN  DataFrame(RawMentalColumns,
                  Tab([i \in DOMAIN cells |->
                          RawMentalRow(i, cells[i][1], cells[i][2], cells[i][3],
                                       <<1, 3, 5>>)]))

\* Every cell has no row or one row; or Medium and High have one row of
\* each work type and Low has up to MaxCount of each.
CountTables ==
    {CountTable(c) : c \in [1..9 -> 0..1]}
    \cup {CountTable([k \in 1..9 |-> IF k <= 3 THEN c[k] ELSE 1]) :
            c \in [1..3 -> 0..MaxCount]}

RawMentalTables == RatingTables \cup CountTables

(***************************************************************************)
(* The rescale applied to a column of its own.                             *)
(***************************************************************************)
MaxColumnLen == 3
MaxColumnValue == 5
MaxRescales == 2

RawColumnsOfFloats ==
    UNION {[1..n -> {F(v) : v \in 0..MaxColumnValue}] : n \in 1..MaxColumnLen}

\* Series.max() of a column of floats (no NaN among them).
RECURSIVE FSeqMax(_)
FSeqMax(s) ==
    IF Len(s) = 1 THEN s[1]
    ELSE LET m == FSeqMax(Tail(s)) IN IF FLe(m, s[1]) THEN s[1] ELSE m

\* (col / col.max()) * 4 + 1
RescaleColumn(c) == Tab([i \in DOMAIN c |-> Rescale(c[i], FSeqMax(c))])

(***************************************************************************)
(* Specifications.                                                         *)
(***************************************************************************)
NoCall == Raise("not called")

\* The script main.py has not started: nothing is bound, found or written.
NoFile == [exists |-> FALSE, table |-> EmptyFrame]
MainNotStarted ==
    /\ pc = 1
    /\ config = "unbound"
    /\ env = [config_file |-> "missing", productivity_file |-> NoFile,
              mental_health_file |-> NoFile, writable |-> {}, figures |-> FALSE]
    /\ written = <<>>
    /\ raised = "none"

\* The caller passes its raw table to cleaning_productivity_data, which
\* leaves the table as it is and returns a new one.
CallCleaningProductivity ==
    /\ df_cleaned = NoCall
    /\ df_cleaned' = cleaning_productivity_data(df)
    /\ UNCHANGED <<df, df2, df2_cleaned, df_stress, df_stress_role, col, rescales, main>>

InitClean ==
    /\ df \in RawProductivityTables
    /\ df_cleaned = NoCall
    /\ df2 = EmptyFrame
    /\ df2_cleaned = NoCall
    /\ df_stress = NoCall
    /\ df_stress_role = NoCall
    /\ col = <<>>
    /\ rescales = 0
    /\ MainNotStarted

SpecClean == InitClean /\ [][CallCleaningProductivity]_vars

\* The caller passes its raw table to df_mentalhealth_cleaning, which
\* writes to that table and returns a new one.
CallMentalHealthCleaning ==
    /\ df2_cleaned = NoCall
    /\ LET out == df_mentalhealth_cleaning(df2)
       IN  /\ df2' = out.arg
           /\ df2_cleaned' = [error |-> out.error, value |-> out.value]
    /\ UNCHANGED <<df, df_cleaned, df_stress, df_stress_role, col, rescales, main>>

\* The cleaned table is passed to stress_worktype_rel.
CallStressWorktypeRel ==
    /\ df2_cleaned.error = "none"
    /\ df_stress = NoCall
    /\ df_stress' = stress_worktype_rel(df2_cleaned.value)
    /\ UNCHANGED <<df, df_cleaned, df2, df2_cleaned, df_stress_role, col, rescales, main>>

\* The cleaned table is passed to stress_jobrole_rel.
CallStressJobroleRel ==
    /\ df2_cleaned.error = "none"
    /\ df_stress_role = NoCall
    /\ df_stress_role' = stress_jobrole_rel(df2_cleaned.value)
    /\ UNCHANGED <<df, df_cleaned, df2, df2_cleaned, df_stress, col, rescales, main>>

InitMental ==
    /\ df = EmptyFrame
    /\ df_cleaned = NoCall
    /\ df2 \in RawMentalTables
    /\ df2_cleaned = NoCall
    /\ df_stress = NoCall
    /\ df_stress_role = NoCall
    /\ col = <<>>
    /\ rescales = 0
    /\ MainNotStarted

NextMental ==
    \/ CallMentalHealthCleaning
    \/ CallStressWorktypeRel
    \/ CallStressJobroleRel

SpecMental == InitMental /\ [][NextMental]_vars

\* A column is rescaled by its own maximum, again and again.
ApplyRescale ==
    /\ rescales < MaxRescales
    /\ col' = RescaleColumn(col)
    /\ rescales' = rescales + 1
    /\ UNCHANGED <<df, df_cleaned, df2, df2_cleaned, df_stress, df_stress_role, main>>

InitRescale ==
    /\ df = EmptyFrame
    /\ df_cleaned = NoCall
    /\ df2 = EmptyFrame
    /\ df2_cleaned = NoCall
    /\ df_stress = NoCall
    /\ df_stress_role = NoCall
    /\ col \in RawColumnsOfFloats
    /\ rescales = 0
    /\ MainNotStarted

SpecRescale == InitRescale /\ [][ApplyRescale]_vars

(***************************************************************************)
(* The reporting functions, as far as the script main.py depends on them:  *)
(* the columns each one reads and the figures each one saves.              *)
(***************************************************************************)
\* A report that reads the columns needs of t and saves the figures saves
\* with plt.savefig under ../figures: a column that is not there is a
\* KeyError, a figures directory that is not there a FileNotFoundError at
\* the first savefig.
Report(t, needs, saves, figures) ==
    IF ~(needs \subseteq t.columns)
    THEN [error |-> "KeyError", saved |-> <<>>]
    ELSE IF saves # <<>> /\ ~figures
    THEN [error |-> "FileNotFoundError", saved |-> <<>>]
    ELSE [error |-> "none", saved |-> saves]

ScoreColumns ==
    {"performance_score", "employee_satisfaction_score", "motivation_score"}

describe_work_type_stats(t, figures) ==
    Report(t, {"work_type"}, <<>>, figures)

plot_work_type_distribution(t, figures) ==
    Report(t, {"work_type"}, <<"distribution_of_work_type.jpeg">>, figures)

plot_stacked_work_and_overtime_hours(t, figures) ==
    Report(t, {"work_type", "work_hours_per_week", "overtime_hours"},
           <<"work_hours.jpeg">>, figures)

calculate_avg_median_scores_by_work_type(t, figures) ==
    Report(t, ScoreColumns \cup {"work_type"}, <<>>, figures)

plot_average_scores_by_work_type(t, figures) ==
    Report(t, ScoreColumns \cup {"work_type"}, <<"average_scores.jpeg">>, figures)

plot_scores_by_work_type(t, figures) ==
    Report(t, ScoreColumns \cup {"work_type"}, <<"average_scores.jpeg">>, figures)

heat_map(t, figures) ==
    Report(t, {}, <<"heat_map.jpeg">>, figures)

satisfaction_mentalhealth(t, figures) ==
    Report(t, {"satisfaction_with_remote_work", "company_support_for_remote_work",
               "social_isolation_rating"},
           <<"satisfaction_mentalhealth_barplots_1.jpeg",
             "satisfaction_mentalhealth_barplots_2.jpeg">>, figures)

work_type_productivity(t, figures) ==
    Report(t, {"work_type", "number_of_virtual_meetings", "hours_worked_per_week"},
           <<"work_type_productivity_piechart.jpeg">>, figures)

descriptive_statistics_hours_worked(t, figures) ==
    Report(t, {"work_type", "hours_worked_per_week", "number_of_virtual_meetings",
               "work_life_balance_rating", "company_support_for_remote_work"},
           <<>>, figures)

(***************************************************************************)
(* The script main.py.                                                     *)
(***************************************************************************)
\* The statements in another order: the two writes moved behind the
\* reporting calls.
ProgramReportsBeforePersist ==
    <<10, 17, 18, 19, 20, 25, 45, 47, 49, 51, 53, 55, 61, 63, 65, 67, 69, 71,
      22, 23>>

\* The statements of main.py in the order they run, each named by the line
\* it starts at.
Program ==
    <<10, 17, 18, 19, 20, 22, 23, 25, 45, 47, 49, 51, 53, 55, 61, 63, 65, 67,
      69, 71>>

\* The configuration file the script finds: none, one that is not YAML, an
\* empty one, one without the output_data section, a complete one.
ConfigFiles == {"missing", "malformed", "empty", "no_output_data", "complete"}

\* try: config = yaml.safe_load(file) / except: print(...): a file that is
\* missing or is not YAML leaves the name config unbound; an empty file
\* loads as None.
yaml_safe_load(file) ==
    IF file \in {"missing", "malformed"} THEN "unbound"
    ELSE IF file = "empty" THEN "None"
    ELSE file

\* config[section][...]: the exception the lookup raises, "none" when the
\* path is there.
ConfigLookup(cfg, section) ==
    IF cfg = "unbound" THEN "NameError"
    ELSE IF cfg = "None" THEN "TypeError"
    ELSE IF cfg = "no_output_data" /\ section = "output_data" THEN "KeyError"
    ELSE "none"

\* pd.read_csv(path)
read_csv(file) ==
    IF file.exists THEN Return(file.table) ELSE Raise("FileNotFoundError")

\* DataFrame.to_csv(path): the exception it raises, "none" when it wrote.
OutputFiles == {"productivity_file", "mental_health_file"}
to_csv(path, writable) == IF path \in writable THEN "none" ELSE "OSError"

\* The input files the script is run on.
File(t) == [exists |-> TRUE, table |-> t]
WithColumn(t, name, v) == SetColumn(t, name, Tab([i \in 1..Len(t.rows) |-> v]))

\* The five rows of ExampleTable with the overtime column the reports read;
\* the same without that column; the same without the department.
FullProductivityTable == WithColumn(ExampleTable, "Overtime_Hours", 10)
ProductivityFiles ==
    {NoFile, File(FullProductivityTable), File(ExampleTable),
     File(DropIgnore(FullProductivityTable, {"Department"}))}

\* A table of counted rows with the three more columns the reports read.
FullMentalTable(count) ==
    WithColumn(
        WithColumn(
            WithColumn(CountTable(count), "Satisfaction_with_Remote_Work", "Satisfied"),
            "Number_of_Virtual_Meetings", 5),
        "Hours_Worked_Per_Week", 40)

OneOfEach == [k \in 1..9 |-> 1]
NoHybrid == [k \in 1..9 |-> IF Cells[k][2] = 2 THEN 0 ELSE 1]
NoMedium == [k \in 1..9 |-> IF Cells[k][1] = 2 THEN 0 ELSE 1]

\* Rows of tech roles, another role and a missing role, with ratings inside
\* and outside 1..5, and the three more columns the reports read.
MixedRoles == <<"Data Scientist", "Sales", NaN, "Project Manager", "Software Engineer">>
MixedRatings == <<<<0, 1, 2>>, <<3, 4, 5>>, <<6, 0, 1>>, <<4, 5, 6>>, <<2, 3, 4>>>>
MixedMentalTable ==
    LET t == DataFrame(RawMentalColumns,
                 Tab([i \in 1..5 |->
                         RawMentalRow(i, MixedRoles[i], WorkTypeSeq[(i % 3) + 1],
                                      StressSeq[((i + 1) % 3) + 1], MixedRatings[i])]))
    IN  WithColumn(
            WithColumn(
                WithColumn(t, "Satisfaction_with_Remote_Work", "Satisfied"),
                "Number_of_Virtual_Meetings", 5),
            "Hours_Worked_Per_Week", 40)

\* One row of every stress level and work type; no Hybrid row; no Medium
\* row; the columns of the reports missing; the region missing; mixed
\* roles and ratings.
MentalHealthFiles ==
    {NoFile, File(FullMentalTable(OneOfEach)), File(FullMentalTable(NoHybrid)),
     File(FullMentalTable(NoMedium)), File(CountTable(OneOfEach)),
     File(DropIgnore(FullMentalTable(OneOfEach), {"Region"})),
     File(MixedMentalTable)}

Environments ==
    [config_file : ConfigFiles,
     productivity_file : ProductivityFiles,
     mental_health_file : MentalHealthFiles,
     writable : SUBSET OutputFiles,
     figures : BOOLEAN]

\* The script is at the statement of the given line.
At(line) ==
    /\ raised = "none"
    /\ pc \in DOMAIN Program
    /\ Program[pc] = line

\* A statement ends: without an exception the next statement follows; an
\* exception nothing catches ends the script where it is.
Finish(e) ==
    /\ raised' = e
    /\ pc' = IF e = "none" THEN pc + 1 ELSE pc

\* Lines 10-14: the configuration is loaded, any exception is caught.
LoadConfig ==
    /\ At(10)
    /\ config' = yaml_safe_load(env.config_file)
    /\ Finish("none")
    /\ UNCHANGED <<df, df_cleaned, df2, df2_cleaned, df_stress, df_stress_role,
                   col, rescales, env, written>>

\* Line 17: df = pd.read_csv(config['input_data']['productivity_file'])
ReadProductivity ==
    /\ At(17)
    /\ LET e == ConfigLookup(config, "input_data")
           r == IF e # "none" THEN Raise(e) ELSE read_csv(env.productivity_file)
       IN  /\ Finish(r.error)
           /\ df' = IF r.error = "none" THEN r.value ELSE df
    /\ UNCHANGED <<df_cleaned, df2, df2_cleaned, df_stress, df_stress_role,
                   col, rescales, config, env, written>>

\* Line 18: df2 = pd.read_csv(config['input_data']['mental_health_file'])
ReadMentalHealth ==
    /\ At(18)
    /\ LET e == ConfigLookup(config, "input_data")
           r == IF e # "none" THEN Raise(e) ELSE read_csv(env.mental_health_file)
       IN  /\ Finish(r.error)
           /\ df2' = IF r.error = "none" THEN r.value ELSE df2
    /\ UNCHANGED <<df, df_cleaned, df2_cleaned, df_stress, df_stress_role,
                   col, rescales, config, env, written>>

\* Line 19: df_cleaned = cleaning_productivity_data(df)
CleanProductivity ==
    /\ At(19)
    /\ LET r == cleaning_productivity_data(df)
       IN  /\ Finish(r.error)
           /\ df_cleaned' = r
    /\ UNCHANGED <<df, df2, df2_cleaned, df_stress, df_stress_role,
                   col, rescales, config, env, written>>

\* df2_cleaned = df_mentalhealth_cleaning(df2), which writes to df2.
MentalHealthCleaningAt(line) ==
    /\ At(line)
    /\ LET out == df_mentalhealth_cleaning(df2)
       IN  /\ Finish(out.error)
           /\ df2' = out.arg
           /\ df2_cleaned' = IF out.error = "none"
                             THEN Return(out.value) ELSE df2_cleaned
    /\ UNCHANGED <<df, df_cleaned, df_stress, df_stress_role,
                   col, rescales, config, env, written>>

\* Line 20.
CleanMentalHealth == MentalHealthCleaningAt(20)

\* table.to_csv(config['output_data'][path], index=False)
WriteAt(line, table, path) ==
    /\ At(line)
    /\ LET e == ConfigLookup(config, "output_data")
           w == IF e # "none" THEN e ELSE to_csv(path, env.writable)
       IN  /\ Finish(w)
           /\ written' = IF w = "none" THEN Append(written, path) ELSE written
    /\ UNCHANGED <<df, df_cleaned, df2, df2_cleaned, df_stress, df_stress_role,
                   col, rescales, config, env>>

\* Lines 22 and 23.
WriteProductivity == WriteAt(22, df_cleaned, "productivity_file")
WriteMentalHealth == WriteAt(23, df2_cleaned, "mental_health_file")

\* A reporting call: its figures are written, what it returns is printed
\* or dropped.
ReportAt(line, r) ==
    /\ At(line)
    /\ Finish(r.error)
    /\ written' = written \o r.saved
    /\ UNCHANGED <<df, df_cleaned, df2, df2_cleaned, df_stress, df_stress_role,
                   col, rescales, config, env>>

\* Lines 25 to 55: the reports of the productivity data.
DescribeWorkTypeStats ==
    ReportAt(25, describe_work_type_stats(df_cleaned.value, env.figures))
PlotWorkTypeDistribution ==
    ReportAt(45, plot_work_type_distribution(df_cleaned.value, env.figures))
PlotStackedWorkAndOvertimeHours ==
    ReportAt(47, plot_stacked_work_and_overtime_hours(df_cleaned.value, env.figures))
CalculateAvgMedianScores ==
    ReportAt(49, calculate_avg_median_scores_by_work_type(df_cleaned.value, env.figures))
PlotAverageScores ==
    ReportAt(51, plot_average_scores_by_work_type(df_cleaned.value, env.figures))
PlotScores ==
    ReportAt(53, plot_scores_by_work_type(df_cleaned.value, env.figures))
HeatMap ==
    ReportAt(55, heat_map(df_cleaned.value, env.figures))

\* Line 61: the mental-health table is cleaned a second time.
CleanMentalHealthAgain == MentalHealthCleaningAt(61)

\* Lines 63 to 71: the reports of the mental-health data.
SatisfactionMentalHealth ==
    ReportAt(63, satisfaction_mentalhealth(df2_cleaned.value, env.figures))
WorkTypeProductivity ==
    ReportAt(65, work_type_productivity(df2_cleaned.value, env.figures))
StressWorktypeRel ==
    ReportAt(67, [error |-> stress_worktype_rel(df2_cleaned.value).error,
                  saved |-> <<>>])
StressJobroleRel ==
    ReportAt(69, [error |-> stress_jobrole_rel(df2_cleaned.value).error,
                  saved |-> <<>>])
DescriptiveStatisticsHoursWorked ==
    ReportAt(71, descriptive_statistics_hours_worked(df2_cleaned.value, env.figures))

Init ==
    /\ df = EmptyFrame
    /\ df_cleaned = NoCall
    /\ df2 = EmptyFrame
    /\ df2_cleaned = NoCall
    /\ df_stress = NoCall
    /\ df_stress_role = NoCall
    /\ col = <<>>
    /\ rescales = 0
    /\ pc = 1
    /\ config = "unbound"
    /\ env \in Environments
    /\ written = <<>>
    /\ raised = "none"

Next ==
    \/ LoadConfig
    \/ ReadProductivity
    \/ ReadMentalHealth
    \/ CleanProductivity
    \/ CleanMentalHealth
    \/ WriteProductivity
    \/ WriteMentalHealth
    \/ DescribeWorkTypeStats
    \/ PlotWorkTypeDistribution
    \/ PlotStackedWorkAndOvertimeHours
    \/ CalculateAvgMedianScores
    \/ PlotAverageScores
    \/ PlotScores
    \/ HeatMap
    \/ CleanMentalHealthAgain
    \/ SatisfactionMentalHealth
    \/ WorkTypeProductivity
    \/ StressWorktypeRel
    \/ StressJobroleRel
    \/ DescriptiveStatisticsHoursWorked

Spec == Init /\ [][Next]_vars

(***************************************************************************)
(* Properties of cleaning_productivity_data, under SpecClean.              *)
(***************************************************************************)
Cleaned == df_cleaned.value.rows
CleanedOk == df_cleaned.error = "none"

\* C1: every row of the cleaned table has work_type Remote, Hybrid or
\* Onsite, never a missing or other value, and has Department IT.
C1_WorkTypeIsALabelAndDepartmentIsIT ==
    CleanedOk =>
        \A k \in 1..Len(Cleaned) :
            /\ Cleaned[k].work_type \in WorkTypes
            /\ Cleaned[k].department = "IT"

\* The positions of the raw rows with Department IT and a frequency of 0,
\* 50 or 100, in order.
RECURSIVE DocumentedRows(_, _)
DocumentedRows(t, i) ==
    IF i > Len(t.rows) THEN <<>>
    ELSE IF /\ t.rows[i].Department = "IT"
            /\ t.rows[i].Remote_Work_Frequency \in {0, 50, 100}
         THEN <<i>> \o DocumentedRows(t, i + 1)
         ELSE DocumentedRows(t, i + 1)

LabelOf(freq) ==
    CASE freq = 100 -> "Remote" [] freq = 50 -> "Hybrid" [] freq = 0 -> "Onsite"

\* Cleaned row k is raw row i, relabelled.
SameRow(k, i) ==
    /\ Cleaned[k].work_hours_per_week = df.rows[i].Work_Hours_Per_Week
    /\ Cleaned[k].department = df.rows[i].Department
    /\ Cleaned[k].promotions = df.rows[i].Promotions
    /\ Cleaned[k].training_hours = df.rows[i].Training_Hours
    /\ Cleaned[k].employee_satisfaction_score = df.rows[i].Employee_Satisfaction_Score
    /\ Cleaned[k].performance_score = df.rows[i].Performance_Score

\* C2: the cleaned table holds exactly the raw rows with Department IT and
\* frequency in {0, 50, 100}, in their order, each once, labelled
\* 100 -> Remote, 50 -> Hybrid, 0 -> Onsite.
C2_ExactlyTheRowsWithFrequency0_50_100 ==
    CleanedOk =>
        LET kept == DocumentedRows(df, 1)
        IN  /\ Len(Cleaned) = Len(kept)
            /\ \A k \in 1..Len(kept) :
                  /\ SameRow(k, kept[k])
                  /\ Cleaned[k].work_type =
                        LabelOf(df.rows[kept[k]].Remote_Work_Frequency)

InOneToFive(a) == FLe(F(1), a) /\ FLe(a, F(5))

\* The promotions and training hours of the cleaned rows are non-negative
\* and neither column has maximum zero.
NonDegenerate ==
    /\ Cleaned # <<>>
    /\ \A k \in 1..Len(Cleaned) :
          Cleaned[k].promotions >= 0 /\ Cleaned[k].training_hours >= 0
    /\ SeqMax(Column(df_cleaned.value, "promotions")) # 0
    /\ SeqMax(Column(df_cleaned.value, "training_hours")) # 0

\* C3: motivation_score is in [1, 5] for every cleaned row whose
\* satisfaction and performance scores are in [1, 5], when promotions and
\* training hours are non-negative with a non-zero maximum over the
\* filtered rows.
C3_MotivationScoreInRange ==
    (CleanedOk /\ NonDegenerate) =>
        \A k \in 1..Len(Cleaned) :
            (/\ InOneToFive(Cleaned[k].employee_satisfaction_score)
             /\ InOneToFive(Cleaned[k].performance_score))
            => InOneToFive(Cleaned[k].motivation_score)

\* C3's case: a non-degenerate table whose scores reach both ends of the
\* range.
C3_Witness ==
    /\ CleanedOk /\ NonDegenerate
    /\ \E j, k \in 1..Len(Cleaned) :
          /\ InOneToFive(Cleaned[j].employee_satisfaction_score)
          /\ InOneToFive(Cleaned[j].performance_score)
          /\ Cleaned[j].motivation_score = F(1)
          /\ Cleaned[k].motivation_score = F(5)

\* The raw table with the promotions and training hours of row i replaced.
WithRow(t, i, promo, train) ==
    DataFrame(t.columns,
              [t.rows EXCEPT ![i] = [@ EXCEPT !.Promotions = promo,
                                              !.Training_Hours = train]])

Excluded(t) == {i \in 1..Len(t.rows) : ~ITAndFrequencyMask(Dropped(t))[i]}

\* Changing the promotions or training hours of a row the filter excludes
\* changes no motivation_score.
ExcludedRowsDoNotCount ==
    \A i \in Excluded(df) : \A v \in {<<7, 0>>, <<0, 9>>} :
        Column(cleaning_productivity_data(WithRow(df, i, v[1], v[2])).value,
               "motivation_score")
        = Column(df_cleaned.value, "motivation_score")

\* In column c a filtered row holding the maximum rescales to 5 and a
\* filtered row holding 0 rescales to 1.
EndsOfScale(c) ==
    LET rows == Filtered(df).rows
        norm == Normalized(Dropped(df), Filtered(df), c)
        max == ColumnMax(Dropped(df), Filtered(df), c)
    IN  \A i \in 1..Len(rows) :
            /\ F(rows[i][c]) = max => norm[i] = F(5)
            /\ rows[i][c] = 0 => norm[i] = F(1)

\* C4 as stated: the maximum is taken over the filtered rows, a filtered
\* row holding the maximum rescales to exactly 5, one holding 0 to exactly
\* 1, and the excluded rows do not count.
C4_RescaleEndsOfScale ==
    CleanedOk =>
        /\ EndsOfScale("Promotions")
        /\ EndsOfScale("Training_Hours")
        /\ ExcludedRowsDoNotCount

\* C4 as amended: the same, for a column whose maximum over the filtered
\* rows is not zero.
C4_RescaleEndsOfScaleNonZeroMax ==
    CleanedOk =>
        /\ \A c \in {"Promotions", "Training_Hours"} :
              ColumnMax(Dropped(df), Filtered(df), c) # F(0) => EndsOfScale(c)
        /\ ExcludedRowsDoNotCount

\* C4's case: a filtered row holds the non-zero maximum, another holds 0,
\* and an excluded row holds more than the filtered maximum.
C4_Witness ==
    /\ CleanedOk
    /\ \E j, k \in 1..Len(Cleaned) :
          /\ Cleaned[j].promotions = 0
          /\ Cleaned[k].promotions > 0
          /\ F(Cleaned[k].promotions) = ColumnMax(Dropped(df), Filtered(df), "Promotions")
    /\ \E i \in Excluded(df) :
          F(df.rows[i].Promotions) # ColumnMax(Dropped(df), Filtered(df), "Promotions")
          /\ FLt(ColumnMax(Dropped(df), Filtered(df), "Promotions"),
                 F(df.rows[i].Promotions))

(***************************************************************************)
(* Properties of the rescale, under SpecRescale.                           *)
(***************************************************************************)
AlreadyScaled(c) ==
    /\ \A i \in DOMAIN c : InOneToFive(c[i])
    /\ FSeqMax(c) = F(5)

\* C5 as stated: rescaling a column whose values lie in [1, 5] with maximum
\* 5 by its own maximum returns the same values.
C5_RescaleIdempotent ==
    [][AlreadyScaled(col) => col' = col]_vars

\* C5 as amended: rescaling such a column leaves the entries equal to 5
\* unchanged and maps every other entry v to 0.8 * v + 1, which is greater
\* than v.
C5_RescaleFixesOnlyFive ==
    [][AlreadyScaled(col) =>
          \A i \in DOMAIN col :
              /\ col[i] = F(5) => col'[i] = F(5)
              /\ col[i] # F(5) =>
                    /\ col'[i] = FAdd(FDivInt(FMulInt(col[i], 4), 5), F(1))
                    /\ FLt(col[i], col'[i])]_vars

\* C5's case: an already scaled column with an entry below 5 has been
\* rescaled again.
C5_Witness ==
    /\ rescales = 2
    /\ \E i, j \in DOMAIN col : col[j] = F(5) /\ FLt(col[i], F(5))

(***************************************************************************)
(* Properties of df_mentalhealth_cleaning and the stress tables, under     *)
(* SpecMental.                                                             *)
(***************************************************************************)
Cleaned2 == df2_cleaned.value.rows
Cleaned2Ok == df2_cleaned.error = "none"
Called2 == df2_cleaned # NoCall

AllowedRoles == {"Data Scientist", "Software Engineer", "Project Manager"}
Degrees == {"Low", "Medium", "High"}

\* The rating column each bucket column is computed from.
BucketSource ==
    [degree_of_remote_support |-> "company_support_for_remote_work",
     degree_of_social_isolation |-> "social_isolation_rating",
     degree_of_work_life_balance |-> "work_life_balance_rating"]
BucketColumn ==
    [degree_of_remote_support |-> "degree_of_remote_support",
     degree_of_social_isolation |-> "degree_of_social_isolation",
     degree_of_work_life_balance |-> "degree_of_work-life_balance"]
Buckets == DOMAIN BucketSource

\* The positions of the rows of the caller's table with an allowed role.
RECURSIVE AllowedRows(_, _)
AllowedRows(t, i) ==
    IF i > Len(t.rows) THEN <<>>
    ELSE IF t.rows[i].job_role \in AllowedRoles
         THEN <<i>> \o AllowedRows(t, i + 1)
         ELSE AllowedRows(t, i + 1)

\* C6: the call raises no error; every returned row has an allowed job
\* role and its three buckets in {Low, Medium, High}; the returned rows are
\* the rows with an allowed role, all of them, in order (a row with another
\* or a missing role is dropped).
C6_RolesAndBuckets ==
    Called2 =>
        /\ Cleaned2Ok
        /\ \A k \in 1..Len(Cleaned2) :
              /\ Cleaned2[k].job_role \in AllowedRoles
              /\ \A b \in Buckets : Cleaned2[k][BucketColumn[b]] \in Degrees
        /\ LET kept == AllowedRows(df2, 1)
           IN  /\ Len(Cleaned2) = Len(kept)
               /\ \A k \in 1..Len(kept) :
                     /\ Cleaned2[k].job_role = df2.rows[kept[k]].job_role
                     /\ \A b \in Buckets :
                           Cleaned2[k][BucketSource[b]]
                           = df2.rows[kept[k]][BucketSource[b]]

\* C6's case: a table with a tech role and a missing role has been
\* cleaned, and the row with the tech role is what was returned.
C6_Witness ==
    /\ Called2 /\ Cleaned2Ok
    /\ Len(Cleaned2) = 1
    /\ \E i, j \in 1..Len(df2.rows) :
          df2.rows[i].job_role = NaN /\ df2.rows[j].job_role \in AllowedRoles

DocumentedBucket(rating) ==
    CASE rating \in {1, 2} -> "Low"
      [] rating = 3 -> "Medium"
      [] rating \in {4, 5} -> "High"

\* C7: for a rating in 1..5 each bucket of a cleaned row is Low for 1 and
\* 2, Medium for 3 and High for 4 and 5 of that row's own rating.
C7_BucketOfOwnRating ==
    Cleaned2Ok =>
        \A k \in 1..Len(Cleaned2) : \A b \in Buckets :
            Cleaned2[k][BucketSource[b]] \in 1..5 =>
                Cleaned2[k][BucketColumn[b]]
                = DocumentedBucket(Cleaned2[k][BucketSource[b]])

\* C7's case: a cleaned row whose three ratings are 1, 2, 3 and another
\* whose ratings are 3, 4, 5.
C7_Witness ==
    /\ Cleaned2Ok
    /\ \E k \in 1..Len(Cleaned2) :
          /\ Cleaned2[k].company_support_for_remote_work = 1
          /\ Cleaned2[k].social_isolation_rating = 2
          /\ Cleaned2[k].work_life_balance_rating = 3
    /\ \E k \in 1..Len(Cleaned2) :
          /\ Cleaned2[k].company_support_for_remote_work = 3
          /\ Cleaned2[k].social_isolation_rating = 4
          /\ Cleaned2[k].work_life_balance_rating = 5

\* C8 as stated: no rating is rejected, and a rating that is neither <= 2
\* nor 3 is High, a rating above 5 and a rating below 1 among them.
C8_OutOfDomainIsHigh ==
    Called2 =>
        /\ Cleaned2Ok
        /\ \A k \in 1..Len(Cleaned2) : \A b \in Buckets :
              LET rating == Cleaned2[k][BucketSource[b]]
              IN  (rating > 5 \/ rating < 1 \/ ~(rating <= 2 \/ rating = 3))
                      => Cleaned2[k][BucketColumn[b]] = "High"

\* C8 as amended: no rating is rejected; a rating that is neither <= 2 nor
\* 3 is High, a rating above 5 among them; a rating below 1 is <= 2 and is
\* Low.
C8_AboveIsHighBelowIsLow ==
    Called2 =>
        /\ Cleaned2Ok
        /\ \A k \in 1..Len(Cleaned2) : \A b \in Buckets :
              LET rating == Cleaned2[k][BucketSource[b]]
                  bucket == Cleaned2[k][BucketColumn[b]]
              IN  /\ (rating > 5 \/ ~(rating <= 2 \/ rating = 3)) => bucket = "High"
                  /\ rating < 1 => bucket = "Low"

\* C8's case: a cleaned row with a rating below 1 and a rating above 5.
C8_Witness ==
    /\ Cleaned2Ok
    /\ \E k \in 1..Len(Cleaned2) :
          /\ Cleaned2[k].company_support_for_remote_work > 5
          /\ Cleaned2[k].social_isolation_rating < 1

FNeg(a) ==
    CASE a.k = "num" -> Frac(-a.n, a.d)
      [] a.k = "inf" -> FNegInf
      [] a.k = "ninf" -> FInf
      [] OTHER -> a
FDistance(a, b) ==
    LET d == FAdd(a, FNeg(b)) IN IF IsNum(d) /\ d.n < 0 THEN FNeg(d) ELSE d
Hundredth == Frac(1, 100)

\* |Total - (a + b + c)| <= 0.01 in row r, a missing value making the sum
\* missing.
SumsToTotal(r, names) ==
    FLe(FDistance(r.Total, FAdd(FAdd(r[names[1]], r[names[2]]), r[names[3]])),
        Hundredth)
TotalIsHundred(r) == FLe(FDistance(r.Total, F(100)), Hundredth)
NoneMissing(r, names) == \A j \in 1..3 : r[names[j]].k # "nan"

StressOk == df_stress.error = "none"
StressRoleOk ==
    /\ df_stress_role.error = "none"
    /\ {RoleSeq[j] : j \in 1..3} \subseteq df_stress_role.value.columns

\* C9 as stated: when the three stress levels and the three work types
\* occur, every row has |Total - (Remote + Hybrid + Onsite)| <= 0.01 and
\* Total = 100 within rounding; the same for the three job roles.
C9_RowsSumToTotal ==
    /\ StressOk =>
          \A r \in 1..3 :
              /\ SumsToTotal(df_stress.value.rows[r], WorkTypeSeq)
              /\ TotalIsHundred(df_stress.value.rows[r])
    /\ StressRoleOk =>
          \A r \in 1..3 :
              /\ SumsToTotal(df_stress_role.value.rows[r], RoleSeq)
              /\ TotalIsHundred(df_stress_role.value.rows[r])

\* C9 as amended: Total = 100 within rounding in every row, and every row
\* in which none of the three columns is missing has
\* |Total - (sum of the three)| <= 0.01.
C9_CompleteRowsSumToTotal ==
    /\ StressOk =>
          \A r \in 1..3 :
              /\ NoneMissing(df_stress.value.rows[r], WorkTypeSeq)
                    => SumsToTotal(df_stress.value.rows[r], WorkTypeSeq)
              /\ TotalIsHundred(df_stress.value.rows[r])
    /\ StressRoleOk =>
          \A r \in 1..3 :
              /\ NoneMissing(df_stress_role.value.rows[r], RoleSeq)
                    => SumsToTotal(df_stress_role.value.rows[r], RoleSeq)
              /\ TotalIsHundred(df_stress_role.value.rows[r])

\* C9's case: both tables computed, a row of three thirds whose rounded
\* columns sum to 99.99, and a row with uneven counts.
C9_Witness ==
    /\ StressOk /\ StressRoleOk
    /\ \E r \in 1..3 :
          LET row == df_stress.value.rows[r]
          IN  /\ NoneMissing(row, WorkTypeSeq)
              /\ FAdd(FAdd(row.Remote, row.Hybrid), row.Onsite) = Frac(9999, 100)
    /\ \E r \in 1..3 :
          LET row == df_stress.value.rows[r]
          IN  /\ NoneMissing(row, WorkTypeSeq)
              /\ row.Remote # row.Hybrid

(***************************************************************************)
(* Properties of the script main.py, under Spec.                           *)
(***************************************************************************)
Failed == raised # "none"
Completed == raised = "none" /\ pc = Len(Program) + 1
FailedLine == Program[pc]
CsvWritten == {written[i] : i \in 1..Len(written)} \cap OutputFiles

\* C10 as stated: all errors are fatal and leave no partial output: when
\* any step of the script fails, neither cleaned CSV has been written.
C10_FailureLeavesNoOutput == Failed => CsvWritten = {}

\* C10 as amended: an exception ends the script where it is raised and no
\* later statement runs.  When the failing statement is a read or a
\* cleaning (lines 17 to 20) neither cleaned CSV has been written; when it
\* is the first write (line 22) the mental-health CSV has not been written;
\* when it is the second write (line 23) the productivity CSV has been
\* written; when it is a reporting call (lines 25 to 71) both have been
\* written.  A script that completed every statement has written both.
C10_FailureBeforeTheWritesLeavesNoOutput ==
    /\ Failed =>
          /\ ~ENABLED Next
          /\ FailedLine \in {17, 18, 19, 20} => CsvWritten = {}
          /\ FailedLine = 22 => "mental_health_file" \notin CsvWritten
          /\ FailedLine = 23 => CsvWritten = {"productivity_file"}
          /\ FailedLine \in {25, 45, 47, 49, 51, 53, 55, 61, 63, 65, 67, 69, 71}
                => CsvWritten = OutputFiles
    /\ Completed => CsvWritten = OutputFiles

\* stress_worktype_rel failed on a cleaned table without Hybrid rows, after
\* both cleaned CSVs were written.
C10_Witness ==
    /\ Failed
    /\ FailedLine = 67
    /\ raised = "ValueError"
    /\ CsvWritten = OutputFiles

\* C11 as stated: in a complete run every output file is written exactly
\* once: the two cleaned CSVs and the figures are all in the log of writes,
\* and no file is in it twice, so no chart is overwritten by a later
\* function.
C11_EachFileWrittenOnce ==
    Completed =>
        /\ OutputFiles \subseteq {written[i] : i \in 1..Len(written)}
        /\ \A i, j \in 1..Len(written) : written[i] = written[j] => i = j

(***************************************************************************)
(* cleaning_productivity_data on tables with columns missing, under        *)
(* SpecClean.                                                              *)
(***************************************************************************)
CalledClean == df_cleaned # NoCall

\* The raw table with the columns of names it lacks put back.
RECURSIVE Restored(_, _)
Restored(t, names) ==
    IF names = {} THEN t
    ELSE LET c == CHOOSE x \in names : TRUE
         IN  Restored(IF c \in t.columns THEN t ELSE WithColumn(t, c, 0),
                      names \ {c})

\* C12: without any of Employee_ID, Hire_Date, Team_Size the cleaning
\* returns the table it returns when they are there, none of them in it;
\* without one of Department, Remote_Work_Frequency, Promotions,
\* Training_Hours, Employee_Satisfaction_Score, Performance_Score it raises
\* a KeyError and returns no table.
C12_MissingColumns ==
    CalledClean =>
        IF {"Department", "Remote_Work_Frequency", "Promotions", "Training_Hours",
            "Employee_Satisfaction_Score", "Performance_Score"} \subseteq df.columns
        THEN /\ df_cleaned.error = "none"
             /\ df_cleaned.value.columns
                   \cap {"employee_id", "hire_date", "team_size",
                         "Employee_ID", "Hire_Date", "Team_Size"} = {}
             /\ df_cleaned.value =
                   cleaning_productivity_data(
                       Restored(df, {"Employee_ID", "Hire_Date", "Team_Size"})).value
        ELSE /\ df_cleaned.error = "KeyError"
             /\ df_cleaned.value = EmptyFrame

\* C12's case: the cleaning returned rows for a table that has neither
\* Hire_Date nor Team_Size.
C12_Witness ==
    /\ CalledClean
    /\ df.columns \cap {"Employee_ID", "Hire_Date", "Team_Size"} = {"Employee_ID"}
    /\ df_cleaned.error = "none"
    /\ Len(df_cleaned.value.rows) = 3

\* C12's other case: the cleaning raised for a table without Promotions.
C12_WitnessRaised ==
    /\ CalledClean
    /\ "Promotions" \notin df.columns
    /\ df_cleaned.error = "KeyError"

(***************************************************************************)
(* cleaning_productivity_data on a column whose maximum is 0, under        *)
(* SpecClean.                                                              *)
(***************************************************************************)
\* The positions of the raw rows that pass the filter of the code.
FilteredPositions ==
    {i \in 1..Len(df.rows) :
        /\ df.rows[i].Department = "IT"
        /\ df.rows[i].Remote_Work_Frequency \notin {25, 75}}

\* The maximum of column c over the filtered rows is 0.
ZeroMax(c) ==
    /\ \E i \in FilteredPositions : df.rows[i][c] = 0
    /\ \A i \in FilteredPositions : df.rows[i][c] <= 0

HasReadColumns ==
    {"Department", "Remote_Work_Frequency", "Promotions", "Training_Hours",
     "Employee_Satisfaction_Score", "Performance_Score"} \subseteq df.columns

\* C13: when the maximum of promotions or of training hours over the
\* filtered rows is 0, the cleaning raises nothing and returns one row per
\* filtered raw row, the motivation_score of each a NaN or an infinity, no
\* number.
C13_ZeroMaxGivesUndefinedScores ==
    (CalledClean /\ HasReadColumns
        /\ (ZeroMax("Promotions") \/ ZeroMax("Training_Hours"))) =>
        /\ df_cleaned.error = "none"
        /\ Len(Cleaned) = Cardinality(FilteredPositions)
        /\ \A k \in 1..Len(Cleaned) :
              Cleaned[k].motivation_score.k \in {"nan", "inf", "ninf"}

\* C13's case: two filtered rows without promotions, their training hours
\* with a maximum that is not 0.
C13_Witness ==
    /\ CalledClean /\ HasReadColumns
    /\ ZeroMax("Promotions") /\ ~ZeroMax("Training_Hours")
    /\ Cardinality(FilteredPositions) = 2
    /\ Len(Cleaned) = 2
    /\ Cleaned[1].motivation_score = FNaN

(***************************************************************************)
(* The tables the functions are given, under SpecMental.                   *)
(***************************************************************************)
\* C14 as stated: no cleaning or aggregation step modifies the table it is
\* given: over every call the caller's raw tables keep their column names,
\* their set of columns and their values, and so does the cleaned table
\* that the two stress functions are given.
C14_InputTablesUnchanged ==
    [][/\ df' = df
       /\ df2' = df2
       /\ Called2 => df2_cleaned' = df2_cleaned]_vars

(***************************************************************************)
(* The labels of the columns of stress_worktype_rel, under SpecMental.     *)
(***************************************************************************)
\* The percentage, to 2 decimals, of the cleaned rows of stress level s
\* whose work_type is w; missing when there is none.
ShareOfWorkType(s, w) ==
    LET level == {i \in 1..Len(Cleaned2) : Cleaned2[i].stress_level = s}
        with == {i \in level : Cleaned2[i].work_type = w}
    IN  IF with = {} THEN FNaN
        ELSE Round2(Frac(100 * Cardinality(with), Cardinality(level)))

\* C15 as stated: in every row of the table of stress_worktype_rel the
\* column labelled Remote holds the percentage of the rows of that stress
\* level whose work_type is Remote, and likewise Hybrid and Onsite.
C15_LabelsMatchWorkTypes ==
    (Cleaned2Ok /\ StressOk) =>
        \A r \in 1..3 :
            LET row == df_stress.value.rows[r]
            IN  /\ row.Remote = ShareOfWorkType(row.stress_level, "Remote")
                /\ row.Hybrid = ShareOfWorkType(row.stress_level, "Hybrid")
                /\ row.Onsite = ShareOfWorkType(row.stress_level, "Onsite")

(***************************************************************************)
(* The second call of df_mentalhealth_cleaning in main.py, under Spec.     *)
(***************************************************************************)
\* C16: the second call of df_mentalhealth_cleaning on the raw table that
\* the first call was given (main.py line 61) raises nothing and returns a
\* table equal to the one the first call returned: the same rows, columns
\* and bucket values.
C16_SecondCleaningReturnsTheSame ==
    [][At(61) => /\ raised' = "none"
                 /\ df2_cleaned'.error = "none"
                 /\ df2_cleaned'.value = df2_cleaned.value]_vars

\* C16's case: the second call has returned, on the table of mixed roles
\* and ratings, of which the three rows with a tech role are kept.
C16_Witness ==
    /\ raised = "none"
    /\ pc \in DOMAIN Program
    /\ Program[pc] = 63
    /\ env.mental_health_file.table = MixedMentalTable
    /\ Len(Cleaned2) = 3
    /\ "degree_of_remote_support" \in df2.columns

====
